---- MODULE Spec2Model ----
(***************************************************************************)
(* Model of the HEOS service handlers of                                   *)
(* homeassistant/components/heos/services.py: sign_in, sign_out, join and  *)
(* unjoin.  A handler is a coroutine; it is modelled as one action per     *)
(* stretch of code between two suspension points (awaits on the            *)
(* controller).  The controller (pyheos) and the entity registry           *)
(* (hass.data[DOMAIN].entities) are the environment: every controller call *)
(* may return or raise a HeosError, and get_groups may return any group    *)
(* snapshot.                                                               *)
(***************************************************************************)
EXTENDS Integers, Sequences, FiniteSets

VARIABLES
    connection_state,   \* controller.connection_state
    pc,                 \* the await the running handler is suspended at; "done"
                        \* once it has ended; "idle" when no service call is pending
    service,            \* service.data of the running / last handler
    groups,             \* the handler's local `groups` (may be unbound)
    ungroup_player_ids, \* _unjoin_handler's local set
    idx,                \* position of the unjoin loops in `groups`
    calls,              \* controller calls issued by the running / last handler
    log,                \* _LOGGER.error reports of the running / last handler
    outcome             \* how the last handler ended: "none", "returned", "raised"

vars == <<connection_state, pc, service, groups, ungroup_player_ids, idx,
          calls, log, outcome>>

----------------------------------------------------------------------------
(* Bounds of the model. *)

\* Player ids known to the HEOS controller are 0..MaxPlayerId.
MaxPlayerId == 3
\* Group ids handed out by the HEOS controller are 0..MaxGroupId.
MaxGroupId == 1
\* Largest number of groups in one get_groups snapshot.
MaxGroups == 2
\* Largest number of entity ids in one service call's entity_id list.
MaxEntityIds == 2

PlayerIds == 0..MaxPlayerId
GroupIds == 0..MaxGroupId

----------------------------------------------------------------------------
(* pyheos constants and errors used by the handlers. *)

STATE_CONNECTED == "connected"
STATE_DISCONNECTED == "disconnected"
STATE_RECONNECTING == "reconnecting"
ConnectionStates == {STATE_CONNECTED, STATE_DISCONNECTED, STATE_RECONNECTING}

\* CommandFailedError is a subclass of HeosError.
CommandFailedError == "CommandFailedError"
HeosError == "HeosError"
OK == "ok"
CallResults == {OK, CommandFailedError, HeosError}

\* Python's None and an optional value.
None == <<>>
Some(x) == <<x>>
\* Python truthiness of an optional integer: None and 0 are falsy.
Truthy(opt) == opt # None /\ opt[1] # 0

----------------------------------------------------------------------------
(* hass.data[DOMAIN].entities: the media_player entities of the host, in   *)
(* registry order.  `heos` is isinstance(entity, HeosMediaPlayer).         *)

Entities ==
    << [entity_id |-> "media_player.kitchen", heos |-> TRUE,  player_id |-> 1],
       [entity_id |-> "media_player.office",  heos |-> TRUE,  player_id |-> 2],
       [entity_id |-> "media_player.porch",   heos |-> TRUE,  player_id |-> 0],
       [entity_id |-> "media_player.tv",      heos |-> FALSE, player_id |-> 1] >>

\* Entity ids a service call may name: the registered ones and one that is
\* registered nowhere.
EntityIds == {Entities[i].entity_id : i \in DOMAIN Entities} \cup {"media_player.ghost"}

\* Values of a cv.entity_ids / cv.comp_entity_ids field.
EntityIdLists == {s \in SUBSET EntityIds : Cardinality(s) <= MaxEntityIds}

----------------------------------------------------------------------------
(* Group snapshots returned by controller.get_groups(refresh=True): a dict *)
(* in iteration order, group_id -> HeosGroup(leader, members).             *)

GroupRecs ==
    [group_id : GroupIds, leader : PlayerIds, members : (SUBSET PlayerIds) \ {{}}]

GroupPlayers(g) == {g.leader} \cup g.members

\* A group the controller can report next to the groups of snapshot s: a new
\* dict key, a leader that is no member of its own group, and players that are
\* in no other group.
Compatible(s, g) ==
    /\ g.leader \notin g.members
    /\ \A i \in DOMAIN s :
          /\ s[i].group_id # g.group_id
          /\ GroupPlayers(s[i]) \cap GroupPlayers(g) = {}

RECURSIVE SnapshotsOfLen(_)
SnapshotsOfLen(n) ==
    IF n = 0 THEN {<<>>}
    ELSE UNION {{Append(s, g) : g \in {h \in GroupRecs : Compatible(s, h)}} :
                    s \in SnapshotsOfLen(n - 1)}

Snapshots == UNION {SnapshotsOfLen(n) : n \in 0..MaxGroups}

Unbound == [bound |-> FALSE, items |-> <<>>]
Bound(s) == [bound |-> TRUE, items |-> s]

----------------------------------------------------------------------------
(* Controller calls and log reports. *)

Call(op, target, members) == [op |-> op, target |-> target, members |-> members]
GetGroups == Call("get_groups", 0, {})
SignIn == Call("sign_in", 0, {})
SignOut == Call("sign_out", 0, {})
CreateGroup(leader, members) == Call("create_group", leader, members)
UpdateGroup(gid, members) == Call("update_group", gid, members)
RemoveGroup(gid) == Call("remove_group", gid, {})
NoOp == Call("none", 0, {})

ServiceData(name, leader, ids) ==
    [name |-> name, group_leader |-> leader, entity_id |-> ids]
NoService == ServiceData("none", "", {})

----------------------------------------------------------------------------
(* The synchronous computations of the handlers. *)

\* Variant: only a disconnected controller is refused (reconnecting passes).
NotConnectedOnlyDisconnected(state) == state = STATE_DISCONNECTED

\* `controller.connection_state != const.STATE_CONNECTED`
NotConnected(state) == state # STATE_CONNECTED

\* The first entity, in registry order, that is a HeosMediaPlayer and has the
\* entity id `leader`: its player_id, or None.
RECURSIVE LeaderPlayerId(_, _)
LeaderPlayerId(leader, i) ==
    IF i > Len(Entities) THEN None
    ELSE IF Entities[i].heos /\ Entities[i].entity_id = leader
         THEN Some(Entities[i].player_id)
         ELSE LeaderPlayerId(leader, i + 1)

\* The first group of the snapshot, from position i on, whose leader has the
\* player id `leader_player_id`: (existing_heos_group_id, existing_heos_group_members).
RECURSIVE ExistingGroup(_, _, _)
ExistingGroup(items, leader_player_id, i) ==
    IF i > Len(items)
    THEN [group_id |-> None, members |-> {}]
    ELSE IF items[i].leader = leader_player_id
         THEN [group_id |-> Some(items[i].group_id), members |-> items[i].members]
         ELSE ExistingGroup(items, leader_player_id, i + 1)

\* Variant: without the isinstance(entity, HeosMediaPlayer) test.
PlayerIdsOfAnyEntity(ids) ==
    {Entities[i].player_id : i \in {j \in DOMAIN Entities : Entities[j].entity_id \in ids}}

\* {entity.player_id for entity in entities
\*      if isinstance(entity, HeosMediaPlayer) and entity.entity_id in ids}
PlayerIdsOf(ids) ==
    {Entities[i].player_id :
        i \in {j \in DOMAIN Entities : Entities[j].heos /\ Entities[j].entity_id \in ids}}

\* Variant: an empty entity id list is treated like any other list.
RemoveAllNever(ungroup_entity_ids) == FALSE

\* `if not ungroup_entity_ids`: the "remove all groups" branch of unjoin.
RemoveAll(ungroup_entity_ids) == ungroup_entity_ids = {}

\* `if not ungroup_player_ids`: no requested entity is a HEOS player.
NoPlayerFound(player_ids) == player_ids = {}

\* Variant: the group is updated even when no member was removed.
UnjoinOpAlwaysUpdate(g, remove_ids) ==
    IF g.leader \in remove_ids
    THEN RemoveGroup(g.group_id)
    ELSE IF g.members \ remove_ids = {}
         THEN RemoveGroup(g.group_id)
         ELSE UpdateGroup(g.group_id, g.members \ remove_ids)

\* Variant: without the leader test, a group whose leader is removed is shrunk
\* like any other.
UnjoinOpNoLeaderTest(g, remove_ids) ==
    IF g.members \ remove_ids = {}
    THEN RemoveGroup(g.group_id)
    ELSE IF g.members \ remove_ids # g.members
         THEN UpdateGroup(g.group_id, g.members \ remove_ids)
         ELSE NoOp

\* The body of the selective unjoin loop for one group: the controller call it
\* makes, or NoOp.
UnjoinOp(g, remove_ids) ==
    IF g.leader \in remove_ids
    THEN RemoveGroup(g.group_id)
    ELSE LET member_player_ids == g.members
             keep_member_player_ids == member_player_ids \ remove_ids
         IN  IF keep_member_player_ids = {}
             THEN RemoveGroup(g.group_id)
             ELSE IF keep_member_player_ids # member_player_ids
                  THEN UpdateGroup(g.group_id, keep_member_player_ids)
                  ELSE NoOp

\* The body of the "remove all" loop for one group.
RemoveAllOp(g) == RemoveGroup(g.group_id)

\* The call the unjoin loop makes for the group at position i.
LoopOp(items, all, remove_ids, i) ==
    IF all THEN RemoveAllOp(items[i]) ELSE UnjoinOp(items[i], remove_ids)

\* The first position from i on at which the unjoin loop awaits the controller
\* (Len(items) + 1 when the loop runs to its end without another call).
RECURSIVE NextCallIdx(_, _, _, _)
NextCallIdx(items, all, remove_ids, i) ==
    IF i > Len(items) THEN i
    ELSE IF LoopOp(items, all, remove_ids, i) # NoOp THEN i
         ELSE NextCallIdx(items, all, remove_ids, i + 1)

\* Variant: the try/except around the loop instead of inside it: a failed call
\* ends the loop.
ResumeAtAbortOnFailure(i, failed, n) == IF failed THEN n + 1 ELSE i + 1

\* Where the unjoin loop goes on once the call for the group at position i has
\* returned (failed = it raised a HeosError, caught inside the loop body); n is
\* the number of groups.
ResumeAt(i, failed, n) == i + 1

----------------------------------------------------------------------------
(* Log reports (_LOGGER.error). *)

ErrNotConnected(name) == <<"not connected", name>>
ErrSignInFailed == <<"Sign in failed", "sign_in">>
ErrSignIn == <<"Unable to sign in", "sign_in">>
ErrSignOut == <<"Unable to sign out", "sign_out">>
ErrJoinGetGroups == <<"Could not get HEOS group info while joining group", "join">>
ErrLeader == <<"Failed to determine HEOS player_id", "join">>
ErrUpdateGroup == <<"Unable to call update_group", "join">>
ErrCreateGroup == <<"HEOS create_group failed", "join">>
ErrUnjoinGetGroups == <<"Failed to get HEOS groups", "unjoin">>
ErrNoPlayer == <<"Could not find a HEOS player", "unjoin">>
ErrRemoveGroup == <<"Failed to remove HEOS group", "unjoin">>
ErrUnjoinUpdate == <<"Failed to update HEOS group", "unjoin">>

----------------------------------------------------------------------------
Init ==
    /\ connection_state = STATE_CONNECTED
    /\ pc = "idle"
    /\ service = NoService
    /\ groups = Unbound
    /\ ungroup_player_ids = {}
    /\ idx = 0
    /\ calls = <<>>
    /\ log = <<>>
    /\ outcome = "none"

\* The controller's connection changes (pyheos connection events).  A handler
\* reads connection_state on entry only, so the events that arrive while a
\* handler is suspended are taken once it has ended.
ConnectionEvent ==
    /\ pc = "idle"
    /\ \E s \in ConnectionStates \ {connection_state} : connection_state' = s
    /\ UNCHANGED <<pc, service, groups, ungroup_player_ids, idx, calls, log, outcome>>

\* The host calls a handler with schema-validated service data.
Enter(data) ==
    /\ pc = "idle"
    /\ service' = data
    /\ UNCHANGED <<connection_state, groups, ungroup_player_ids, idx>>

\* The handler returns at once because the controller is not connected.
Rejected(name) ==
    /\ pc' = "done"
    /\ calls' = <<>>
    /\ log' = <<ErrNotConnected(name)>>
    /\ outcome' = "returned"

\* The handler issues its first controller call and suspends at `at`.
FirstCall(c, at) ==
    /\ pc' = at
    /\ calls' = <<c>>
    /\ log' = <<>>
    /\ outcome' = "none"

\* The handler ends (returns, or raises `how`).
Finish(how, reports) ==
    /\ pc' = "done"
    /\ outcome' = how
    /\ log' = log \o reports

(* _sign_in_handler *)
SignInHandler ==
    /\ Enter(ServiceData("sign_in", "", {}))
    /\ IF NotConnected(connection_state)
       THEN Rejected("sign_in")
       ELSE FirstCall(SignIn, "sign_in")

SignInReturn ==
    /\ pc = "sign_in"
    /\ \E res \in CallResults :
          Finish("returned",
                 IF res = OK THEN <<>>
                 ELSE IF res = CommandFailedError THEN <<ErrSignInFailed>>
                 ELSE <<ErrSignIn>>)
    /\ UNCHANGED <<connection_state, service, groups, ungroup_player_ids, idx, calls>>

(* _sign_out_handler *)
SignOutHandler ==
    /\ Enter(ServiceData("sign_out", "", {}))
    /\ IF NotConnected(connection_state)
       THEN Rejected("sign_out")
       ELSE FirstCall(SignOut, "sign_out")

SignOutReturn ==
    /\ pc = "sign_out"
    /\ \E res \in CallResults :
          Finish("returned", IF res = OK THEN <<>> ELSE <<ErrSignOut>>)
    /\ UNCHANGED <<connection_state, service, groups, ungroup_player_ids, idx, calls>>

(* _join_handler *)
JoinHandler ==
    \E leader \in EntityIds, members \in EntityIdLists :
        /\ Enter(ServiceData("join", leader, members))
        /\ IF NotConnected(connection_state)
           THEN Rejected("join")
           ELSE FirstCall(GetGroups, "join_get_groups")

\* get_groups has returned `fetched` (a snapshot) or raised: the handler runs
\* from the except clause to its update_group / create_group call, to its
\* return, or to the exception it raises.
JoinAfterGetGroups(failed, fetched) ==
    LET groups1 == IF failed THEN Unbound ELSE Bound(fetched)
        reports == IF failed THEN <<ErrJoinGetGroups>> ELSE <<>>
        leader_player_id == LeaderPlayerId(service.group_leader, 1)
    IN  /\ groups' = groups1
        /\ IF ~Truthy(leader_player_id)
           THEN /\ Finish("returned", reports \o <<ErrLeader>>)
                /\ calls' = calls
           ELSE IF ~groups1.bound
           THEN \* `groups.items()` on the unbound local: UnboundLocalError
                /\ Finish("raised", reports)
                /\ calls' = calls
           ELSE LET existing == ExistingGroup(groups1.items, leader_player_id[1], 1)
                    new_member_player_ids == PlayerIdsOf(service.entity_id)
                    all_member_player_ids ==
                        new_member_player_ids \cup existing.members
                IN  /\ log' = log \o reports
                    /\ outcome' = outcome
                    /\ IF Truthy(existing.group_id)
                       THEN /\ pc' = "join_update_group"
                            /\ calls' = Append(calls,
                                   UpdateGroup(existing.group_id[1], all_member_player_ids))
                       ELSE /\ pc' = "join_create_group"
                            /\ calls' = Append(calls,
                                   CreateGroup(leader_player_id[1], all_member_player_ids))

JoinGetGroupsReturn ==
    /\ pc = "join_get_groups"
    /\ \/ \E s \in Snapshots : JoinAfterGetGroups(FALSE, s)
       \/ JoinAfterGetGroups(TRUE, <<>>)
    /\ UNCHANGED <<connection_state, service, ungroup_player_ids, idx>>

JoinUpdateGroupReturn ==
    /\ pc = "join_update_group"
    /\ \E res \in CallResults :
          Finish("returned", IF res = OK THEN <<>> ELSE <<ErrUpdateGroup>>)
    /\ UNCHANGED <<connection_state, service, groups, ungroup_player_ids, idx, calls>>

JoinCreateGroupReturn ==
    /\ pc = "join_create_group"
    /\ \E res \in CallResults :
          Finish("returned", IF res = OK THEN <<>> ELSE <<ErrCreateGroup>>)
    /\ UNCHANGED <<connection_state, service, groups, ungroup_player_ids, idx, calls>>

(* _unjoin_handler *)
UnjoinHandler ==
    \E ids \in EntityIdLists :
        /\ Enter(ServiceData("unjoin", "", ids))
        /\ IF NotConnected(connection_state)
           THEN Rejected("unjoin")
           ELSE FirstCall(GetGroups, "unjoin_get_groups")

\* The unjoin loop runs on from position i of `items` to its next controller
\* call, or to the end of the handler.
UnjoinLoopFrom(items, remove_ids, i, reports) ==
    LET all == RemoveAll(service.entity_id)
        j == NextCallIdx(items, all, remove_ids, i)
    IN  /\ idx' = j
        /\ IF j > Len(items)
           THEN /\ Finish("returned", reports)
                /\ calls' = calls
           ELSE /\ pc' = "unjoin_loop"
                /\ calls' = Append(calls, LoopOp(items, all, remove_ids, j))
                /\ log' = log \o reports
                /\ outcome' = outcome

UnjoinGetGroupsReturn ==
    /\ pc = "unjoin_get_groups"
    /\ \/ /\ Finish("returned", <<ErrUnjoinGetGroups>>)
          /\ UNCHANGED <<groups, ungroup_player_ids, idx, calls>>
       \/ \E s \in Snapshots :
             /\ groups' = Bound(s)
             /\ IF RemoveAll(service.entity_id)
                THEN /\ ungroup_player_ids' = ungroup_player_ids
                     /\ UnjoinLoopFrom(s, {}, 1, <<>>)
                ELSE LET player_ids == PlayerIdsOf(service.entity_id)
                     IN  /\ ungroup_player_ids' = player_ids
                         /\ IF NoPlayerFound(player_ids)
                            THEN /\ Finish("returned", <<ErrNoPlayer>>)
                                 /\ UNCHANGED <<idx, calls>>
                            ELSE UnjoinLoopFrom(s, player_ids, 1, <<>>)
    /\ UNCHANGED <<connection_state, service>>

\* remove_group / update_group of the unjoin loops has returned or raised.
UnjoinLoopReturn ==
    /\ pc = "unjoin_loop"
    /\ \E res \in CallResults :
          LET failed == res # OK
              report == IF calls[Len(calls)].op = "update_group"
                        THEN ErrUnjoinUpdate ELSE ErrRemoveGroup
          IN  UnjoinLoopFrom(groups.items, ungroup_player_ids,
                             ResumeAt(idx, failed, Len(groups.items)),
                             IF failed THEN <<report>> ELSE <<>>)
    /\ UNCHANGED <<connection_state, service, groups, ungroup_player_ids>>

\* The host's service call completes; the handler's frame is gone.
ServiceCallDone ==
    /\ pc = "done"
    /\ pc' = "idle"
    /\ service' = NoService
    /\ groups' = Unbound
    /\ ungroup_player_ids' = {}
    /\ idx' = 0
    /\ calls' = <<>>
    /\ log' = <<>>
    /\ outcome' = "none"
    /\ UNCHANGED connection_state

HandlerStep ==
    \/ SignInReturn
    \/ SignOutReturn
    \/ JoinGetGroupsReturn
    \/ JoinUpdateGroupReturn
    \/ JoinCreateGroupReturn
    \/ UnjoinGetGroupsReturn
    \/ UnjoinLoopReturn

Next ==
    \/ ConnectionEvent
    \/ SignInHandler
    \/ SignOutHandler
    \/ JoinHandler
    \/ UnjoinHandler
    \/ SignInReturn
    \/ SignOutReturn
    \/ JoinGetGroupsReturn
    \/ JoinUpdateGroupReturn
    \/ JoinCreateGroupReturn
    \/ UnjoinGetGroupsReturn
    \/ UnjoinLoopReturn
    \/ ServiceCallDone

Spec == Init /\ [][Next]_vars

\* The event loop resumes a suspended handler once its controller call has
\* returned or raised.
FairSpec == Spec /\ WF_vars(HandlerStep)

----------------------------------------------------------------------------
(* Vocabulary of the properties. *)

MutationOps == {"create_group", "update_group", "remove_group"}

\* The group mutations among the controller calls, in the order issued.
Mutations(cs) == SelectSeq(cs, LAMBDA c : c.op \in MutationOps)

\* The mutations issued for the group (or leader) `target`.
OpsFor(cs, target) == SelectSeq(Mutations(cs), LAMBDA c : c.target = target)

Reported(report) == \E i \in DOMAIN log : log[i] = report

\* The handler `name` has run to its end.
Ended(name) == pc = "done" /\ service.name = name

\* The handler passed the connection check and its get_groups call returned
\* a snapshot / raised.
Fetched == calls # <<>> /\ groups.bound
FetchFailed == calls # <<>> /\ ~groups.bound /\ pc = "done"

\* The entity id names a HEOS player of the host, and that player's id.
KnownPlayer(eid) ==
    \E i \in DOMAIN Entities : Entities[i].heos /\ Entities[i].entity_id = eid
PlayerOf(eid) ==
    Entities[CHOOSE i \in DOMAIN Entities :
                 Entities[i].heos /\ Entities[i].entity_id = eid].player_id
Resolved(ids) == {PlayerOf(e) : e \in {x \in ids : KnownPlayer(x)}}

LedBy(player) == {i \in DOMAIN groups.items : groups.items[i].leader = player}

----------------------------------------------------------------------------
\* C1: a handler invoked while the controller is not connected returns at
\* once and issues no controller call, for each of the four services and
\* whatever the request data.
C1_NotConnectedNoCall ==
    [][(/\ pc = "idle"
        /\ connection_state # STATE_CONNECTED
        /\ connection_state' = connection_state)
       => (/\ pc' = "done"
           /\ calls' = <<>>
           /\ outcome' = "returned"
           /\ service'.name \in {"sign_in", "sign_out", "join", "unjoin"}
           /\ log' = <<ErrNotConnected(service'.name)>>)]_vars

C1_Witness ==
    /\ Ended("join")
    /\ connection_state = STATE_RECONNECTING
    /\ service.entity_id # {}
    /\ log = <<ErrNotConnected("join")>>
    /\ calls = <<>>

\* C2: a join whose leader leads a group G of the fetched snapshot issues
\* exactly one mutation, update_group(G, requested members + G's members).
C2_JoinExistingGroupUpdates ==
    (Ended("join") /\ Fetched /\ KnownPlayer(service.group_leader)) =>
        \A i \in LedBy(PlayerOf(service.group_leader)) :
            Mutations(calls) =
                <<UpdateGroup(groups.items[i].group_id,
                              Resolved(service.entity_id) \cup groups.items[i].members)>>

\* C3: a join whose leader is a known player that leads no group of the
\* fetched snapshot issues exactly one mutation, create_group(leader's player
\* id, the players the requested members resolve to).
C3_JoinNoGroupCreates ==
    (/\ Ended("join")
     /\ Fetched
     /\ KnownPlayer(service.group_leader)
     /\ LedBy(PlayerOf(service.group_leader)) = {}) =>
        Mutations(calls) =
            <<CreateGroup(PlayerOf(service.group_leader), Resolved(service.entity_id))>>

\* C4: a selective unjoin treats every group whose leader is not removed by
\* its remaining members: none left - remove_group; fewer left -
\* update_group with the remaining members; all left - no call.
C4_UnjoinMembers ==
    (Ended("unjoin") /\ Fetched /\ Resolved(service.entity_id) # {}) =>
        \A i \in DOMAIN groups.items :
            LET g == groups.items[i]
                R == Resolved(service.entity_id)
                keep == g.members \ R
            IN  g.leader \notin R =>
                    OpsFor(calls, g.group_id) =
                        IF keep = {} THEN <<RemoveGroup(g.group_id)>>
                        ELSE IF keep # g.members THEN <<UpdateGroup(g.group_id, keep)>>
                        ELSE <<>>

C4_Witness ==
    /\ Ended("unjoin")
    /\ Fetched
    /\ \E i \in DOMAIN groups.items :
          LET g == groups.items[i]
              R == Resolved(service.entity_id)
          IN  /\ g.leader \notin R
              /\ g.members \cap R # {}
              /\ g.members \ R # {}
              /\ OpsFor(calls, g.group_id) = <<UpdateGroup(g.group_id, g.members \ R)>>

\* C5: a selective unjoin that removes a group's leader issues remove_group for
\* that group and no update_group, whichever of its members are removed too.
C5_UnjoinLeader ==
    (Ended("unjoin") /\ Fetched /\ Resolved(service.entity_id) # {}) =>
        \A i \in DOMAIN groups.items :
            LET g == groups.items[i]
            IN  g.leader \in Resolved(service.entity_id) =>
                    OpsFor(calls, g.group_id) = <<RemoveGroup(g.group_id)>>

C5_Witness ==
    /\ Ended("unjoin")
    /\ Fetched
    /\ \E i \in DOMAIN groups.items :
          LET g == groups.items[i]
              R == Resolved(service.entity_id)
          IN  /\ g.leader \in R
              /\ g.members \cap R # {}
              /\ g.members \ R # {}
              /\ OpsFor(calls, g.group_id) = <<RemoveGroup(g.group_id)>>

\* C6: an unjoin with no entity ids issues one remove_group per group of the
\* fetched snapshot and nothing else.
C6_UnjoinAll ==
    (Ended("unjoin") /\ Fetched /\ service.entity_id = {}) =>
        /\ Len(Mutations(calls)) = Len(groups.items)
        /\ \A k \in DOMAIN Mutations(calls) : Mutations(calls)[k].op = "remove_group"
        /\ \A i \in DOMAIN groups.items :
              OpsFor(calls, groups.items[i].group_id) =
                  <<RemoveGroup(groups.items[i].group_id)>>

C6_Witness ==
    /\ Ended("unjoin")
    /\ Fetched
    /\ service.entity_id = {}
    /\ Len(groups.items) = 2
    /\ Len(Mutations(calls)) = 2

\* C7: a join whose get_groups call fails reports the failure, returns
\* normally and issues no create_group or update_group.
C7_JoinFetchFailureAborts ==
    (Ended("join") /\ FetchFailed) =>
        /\ outcome = "returned"
        /\ Reported(ErrJoinGetGroups)
        /\ Mutations(calls) = <<>>

\* C8: an unjoin that names entity ids none of which is a HEOS player reports
\* a failure and issues no remove_group or update_group.
C8_UnjoinNoPlayer ==
    (/\ Ended("unjoin")
     /\ calls # <<>>
     /\ service.entity_id # {}
     /\ \A e \in service.entity_id : ~KnownPlayer(e)) =>
        /\ outcome = "returned"
        /\ Mutations(calls) = <<>>
        /\ log = IF groups.bound THEN <<ErrNoPlayer>> ELSE <<ErrUnjoinGetGroups>>

C8_Witness ==
    /\ Ended("unjoin")
    /\ Fetched
    /\ service.entity_id = {"media_player.tv", "media_player.ghost"}
    /\ \E i \in DOMAIN groups.items : Entities[4].player_id \in GroupPlayers(groups.items[i])
    /\ log = <<ErrNoPlayer>>
    /\ Mutations(calls) = <<>>

\* C9: a join is rejected with "failed to determine player_id", issuing no
\* mutation, exactly when its leader entity id names no HEOS player.
C9_JoinLeaderNotFound ==
    (Ended("join") /\ calls # <<>>) =>
        /\ ~KnownPlayer(service.group_leader) =>
              (outcome = "returned" /\ Reported(ErrLeader) /\ Mutations(calls) = <<>>)
        /\ Reported(ErrLeader) => ~KnownPlayer(service.group_leader)

\* The call an unjoin makes for group g (NoOp: none), and the calls it makes
\* for a whole snapshot, in snapshot order.
ExpectedOp(g, ids) ==
    IF ids = {} \/ g.leader \in Resolved(ids) \/ g.members \subseteq Resolved(ids)
    THEN RemoveGroup(g.group_id)
    ELSE IF g.members \cap Resolved(ids) # {}
         THEN UpdateGroup(g.group_id, g.members \ Resolved(ids))
         ELSE NoOp

ExpectedCalls(items, ids) ==
    SelectSeq([i \in DOMAIN items |-> ExpectedOp(items[i], ids)], LAMBDA c : c # NoOp)

IsPrefix(s, t) == Len(s) <= Len(t) /\ \A i \in DOMAIN s : s[i] = t[i]

UnjoinInOrder ==
    (/\ service.name = "unjoin"
     /\ Fetched
     /\ (service.entity_id = {} \/ Resolved(service.entity_id) # {})) =>
        LET expected == ExpectedCalls(groups.items, service.entity_id)
        IN  /\ IsPrefix(Mutations(calls), expected)
            /\ pc = "done" => Mutations(calls) = expected
            /\ Len(log) <= Len(Mutations(calls))

\* C10: an unjoin issues its calls one after another in snapshot order; a
\* failed call is reported and the remaining groups are still processed, so the
\* calls attempted do not depend on which of them failed; and the handler
\* always ends.
C10_UnjoinTolerant ==
    /\ []UnjoinInOrder
    /\ (pc \in {"unjoin_get_groups", "unjoin_loop"}) ~> (pc = "done")

C10_Witness ==
    /\ Ended("unjoin")
    /\ Fetched
    /\ service.entity_id # {}
    /\ Len(groups.items) = 2
    /\ Len(Mutations(calls)) = 2
    /\ log = <<ErrRemoveGroup, ErrRemoveGroup>>

====
